---------------------------- MODULE Spec2Model ----------------------------
(***************************************************************************)
(* Model of the PDP-8 paper-tape capture program                           *)
(* (src/capture-pdp8-papertapes.c): the byte-driven capture engines        *)
(* capture_raw, capture_rim and capture_bin, their function-static         *)
(* counters, and the read loop of main that drives them from the serial    *)
(* line.                                                                   *)
(***************************************************************************)
EXTENDS Integers, Sequences, FiniteSets, TLC

(***************************************************************************)
(* Bounds of the model.                                                    *)
(***************************************************************************)
MaxLead == 9          \* longest lead-in run of a framed tape
MaxBody == 2          \* longest enumerated record body
MaxTrail == 2         \* longest run of 0x80 after the body (sentinel included)
MaxFree == 3          \* longest unstructured tape
MaxRun == 33          \* longest body of repeated bytes (checksum wrap-around)
MaxRd == 2            \* most bytes one read() delivers
MaxRomFree == 3       \* longest unstructured tape given to create-bootrom
MaxWords == 2         \* most data words of a word-stream tape
MaxOver == 2          \* most RomWords a long tape decodes to beyond the table

(***************************************************************************)
(* Control codes and bit masks.                                            *)
(***************************************************************************)
CC_LEAD == 128
CC_TRAIL == 128
CC_ORIGIN == 64
CC_FIELD == 192
CC_DATA_MASK == 63
CC_CONTROL_MASK == 192

\* c & CC_CONTROL_MASK for an unsigned char c
ControlBits(c) == (c \div 64) * 64

\* c & 0x3f
DataBits(c) == c % (CC_DATA_MASK + 1)

\* c & 0x80, as a truth value
TopBit(c) == c >= 128

(***************************************************************************)
(* enum captureState_e                                                     *)
(***************************************************************************)
CS_START == 0
CS_LEAD_IN == 1
CS_DATA_H == 2
CS_DATA_L == 3
CS_TRAIL == 4
CS_DONE == 5

TF_RAW == "raw"
TF_RIM == "rim"
TF_BIN == "bin"

NoStrip == -1         \* args.leadin_strip when -x is not given
StripCount == 16      \* bytes written in place of a stripped lead-in

VARIABLES
    format,       \* args.format
    strip_char,   \* args.leadin_strip
    tape,         \* the bytes the serial line will deliver
    faulty,       \* TRUE if read() on the serial device may fail
    flipped,      \* <<i, k>>: bit k of tape byte i was inverted; <<0, 0>>: none
    pos,          \* index of the next tape byte to hand to the engine (p)
    rdlen,        \* bytes of the current read() not yet processed
    time_out,     \* main's time_out flag
    pc,           \* position in main: "read", "for", "while", "closed"
    state,        \* main's captureState_e state
    leadinCount,  \* static leadinCount of the selected capture function
    csum,         \* static csum of capture_bin
    c1,           \* static c1 of capture_bin
    c2,           \* static c2 of capture_bin
    out,          \* bytes written to fCapture
    printed,      \* checksum reports written to stdout
    stderr,       \* TRUE once "Error from read" was written to stderr
    session,      \* number of times the engine state was set back to CS_START
    first,        \* result of the previous session, <<>> in the first one
    args_bits,    \* args.bits
    args_parity,  \* args.parity
    env,          \* the steps of the setup that fail in this run
    attribs_ret,  \* <<r>> once set_interface_attribs has returned r
    exit_status,  \* <<s>> once the process has ended with status s
    btape,        \* create-bootrom: the bytes of bootloader.bin
    fpos,         \* create-bootrom: index of the next byte getc(fp) returns
    rom_n,        \* create-bootrom: main's n
    rom_sum,      \* create-bootrom: main's checksum
    bootloader,   \* create-bootrom: main's table bootloader[128]
    stdout,       \* create-bootrom: the lines printed while reading
    rom1,         \* the bytes of rom1.bin
    rom2,         \* the bytes of rom2.bin
    rpc,          \* create-bootrom: position in main
    rom_i,        \* parse-bootrom: main's i
    addr,         \* parse-bootrom: main's addr
    ext_addr,     \* parse-bootrom: main's ext_addr
    report        \* parse-bootrom: the lines printed, one per slot

\* what is fixed when the program starts
inputs == <<format, strip_char, tape, faulty, flipped, args_bits, args_parity,
            env>>

capvars == <<inputs, pos, rdlen, time_out, pc, state, leadinCount, csum, c1,
             c2, out, printed, stderr, session, first, attribs_ret,
             exit_status>>

\* the state of create-bootrom and of parse-bootrom
romvars == <<btape, fpos, rom_n, rom_sum, bootloader, stdout, rom1, rom2, rpc,
             rom_i, addr, ext_addr, report>>

vars == <<capvars, romvars>>

\* struct romData bootloader[128]
TableSize == 128

\* a struct romData
RomData(cmd, data) == [cmd |-> cmd, data |-> data]

\* memset (bootloader, 0, sizeof bootloader)
ZeroTable == [k \in 0..(TableSize - 1) |-> RomData(0, 0)]

\* create-bootrom and parse-bootrom when they start, the tape left open
InitCreate ==
    /\ fpos = 1
    /\ rom_n = 0
    /\ rom_sum = 0
    /\ bootloader = ZeroTable
    /\ stdout = <<>>
    /\ rom1 = <<>>
    /\ rom2 = <<>>
    /\ rpc = "read"
    /\ rom_i = 0
    /\ addr = 0
    /\ ext_addr = 0
    /\ report = <<>>

\* the boot-ROM programs are not run: there is no tape for them
NoBootRom == btape = <<>> /\ InitCreate

(***************************************************************************)
(* The engine as a value: the caller's state plus the function statics     *)
(* and the two sinks.                                                      *)
(***************************************************************************)
Eng == [state |-> state, leadinCount |-> leadinCount, csum |-> csum,
        c1 |-> c1, c2 |-> c2, out |-> out, printed |-> printed]

\* the bytes written by: while (leadinCount--) fputc(CC_LEAD, f);
FlushLeader(n) == [i \in 1..n |-> CC_LEAD]

\* value of leadinCount when that loop has ended
AfterFlush == -1

(***************************************************************************)
(* capture_raw                                                             *)
(***************************************************************************)
capture_raw(e, c, strip) ==
    IF e.state = CS_START
    THEN IF strip # c
         THEN [e EXCEPT !.out = IF strip # NoStrip
                                THEN @ \o [i \in 1..StripCount |-> strip]
                                ELSE @,
                        !.state = CS_LEAD_IN]
         ELSE e
    ELSE [e EXCEPT !.out = Append(@, c)]

(***************************************************************************)
(* capture_rim                                                             *)
(***************************************************************************)
\* faulty variant: the lead-in threshold is one byte too low
RimStarts_SevenSuffice(c, n) == ControlBits(c) = CC_ORIGIN /\ n > 6

\* the condition under which a byte read in CS_LEAD_IN starts a RIM record
RimStarts(c, n) == ControlBits(c) = CC_ORIGIN /\ n > 7

\* faulty variant: the first byte takes the engine past CS_LEAD_IN
StartStep_SkipsLeadIn(e, c) ==
    [e EXCEPT !.leadinCount = IF c = CC_LEAD THEN @ + 1 ELSE @,
              !.state = CS_DATA_H]

\* case CS_START, identical in capture_rim and capture_bin
StartStep(e, c) ==
    [e EXCEPT !.leadinCount = IF c = CC_LEAD THEN @ + 1 ELSE @,
              !.state = CS_LEAD_IN]

\* faulty variant: a byte other than 0x80 is skipped and the trailer goes on
TrailStep_Resumes(e, c) ==
    IF c # CC_TRAIL THEN e ELSE [e EXCEPT !.out = Append(@, c)]

\* case CS_TRAIL, identical in capture_rim and capture_bin
TrailStep(e, c) ==
    IF c # CC_TRAIL
    THEN [e EXCEPT !.state = CS_DONE]
    ELSE [e EXCEPT !.out = Append(@, c)]

\* faulty variant: CS_DONE shares the copying case of capture_raw
DoneStep_Copies(e, c) == [e EXCEPT !.out = Append(@, c)]

\* case CS_DONE (and the data state the function does not use): break
DoneStep(e, c) == e

\* faulty variant: a byte that does not start a record leaves the counter
RimLeadIn_KeepsCount(e, c) ==
    IF c = CC_LEAD
    THEN [e EXCEPT !.leadinCount = @ + 1]
    ELSE IF RimStarts(c, e.leadinCount)
         THEN [e EXCEPT !.out = @ \o FlushLeader(e.leadinCount) \o <<c>>,
                        !.leadinCount = AfterFlush,
                        !.state = CS_DATA_H]
         ELSE e

RimLeadIn(e, c) ==
    IF c = CC_LEAD
    THEN [e EXCEPT !.leadinCount = @ + 1]
    ELSE IF RimStarts(c, e.leadinCount)
         THEN [e EXCEPT !.out = @ \o FlushLeader(e.leadinCount) \o <<c>>,
                        !.leadinCount = AfterFlush,
                        !.state = CS_DATA_H]
         ELSE [e EXCEPT !.leadinCount = 0]

\* faulty variant: the closing 0x80 is not copied to the output
RimData_DropsSentinel(e, c) ==
    IF c = 128 THEN [e EXCEPT !.state = CS_TRAIL]
    ELSE [e EXCEPT !.out = Append(@, c)]

\* case CS_DATA_H of capture_rim
RimData(e, c) ==
    [e EXCEPT !.state = IF c = 128 THEN CS_TRAIL ELSE @,
              !.out = Append(@, c)]

capture_rim(e, c) ==
    CASE e.state = CS_START -> StartStep(e, c)
      [] e.state = CS_LEAD_IN -> RimLeadIn(e, c)
      [] e.state = CS_DATA_H -> RimData(e, c)
      [] e.state = CS_TRAIL -> TrailStep(e, c)
      [] e.state = CS_DONE -> DoneStep(e, c)
      [] e.state = CS_DATA_L -> DoneStep(e, c)

(***************************************************************************)
(* capture_bin                                                             *)
(***************************************************************************)
\* faulty variant: the lead-in threshold is one byte too high
BinStarts_NineNeeded(c, n) ==
    \/ ControlBits(c) = CC_ORIGIN /\ n > 8
    \/ ControlBits(c) = CC_FIELD /\ n > 8

\* the condition under which a byte read in CS_LEAD_IN starts a BIN record
BinStarts(c, n) ==
    \/ ControlBits(c) = CC_ORIGIN /\ n > 7
    \/ ControlBits(c) = CC_FIELD /\ n > 7

\* faulty variant: the two halves of the received checksum are exchanged
Transmitted_Swapped(a1, a2) == DataBits(a1) * 64 + DataBits(a2)

\* int checksum = (c2 & 0x3f) << 6 | (c1 & 0x3f);
Transmitted(a1, a2) == DataBits(a2) * 64 + DataBits(a1)

\* faulty variant: the two checksum bytes stay in the computed sum
Computed_NoCorrection(s, a1, a2) == s % 4096

\* csum = (csum - c1 - c2) & 0xfff;
Computed(s, a1, a2) == (s - a1 - a2) % 4096

\* faulty variant: the comparison is inverted
Verdict_Inverted(calc, recv) ==
    IF calc # recv THEN <<"OK", recv>> ELSE <<"FAIL", calc, recv>>

\* the line printed by the checksum verification
Verdict(calc, recv) ==
    IF calc = recv THEN <<"OK", recv>> ELSE <<"FAIL", calc, recv>>

\* faulty variant: a Field byte that starts a record is summed too
BinLeadIn_FieldSummed(e, c) ==
    IF c = CC_LEAD
    THEN [e EXCEPT !.leadinCount = @ + 1]
    ELSE IF BinStarts(c, e.leadinCount)
         THEN [e EXCEPT !.out = @ \o FlushLeader(e.leadinCount) \o <<c>>,
                        !.leadinCount = AfterFlush,
                        !.csum = @ + c,
                        !.state = CS_DATA_L]
         ELSE [e EXCEPT !.leadinCount = 0]

BinLeadIn(e, c) ==
    IF c = CC_LEAD
    THEN [e EXCEPT !.leadinCount = @ + 1]
    ELSE IF BinStarts(c, e.leadinCount)
         THEN [e EXCEPT !.out = @ \o FlushLeader(e.leadinCount) \o <<c>>,
                        !.leadinCount = AfterFlush,
                        !.csum = IF ControlBits(c) = CC_ORIGIN
                                 THEN @ + c ELSE @,
                        !.state = CS_DATA_L]
         ELSE [e EXCEPT !.leadinCount = 0]

\* faulty variant: only the six payload bits of the byte are summed
BinAccumulate_PayloadOnly(e, c) ==
    IF ~TopBit(c)
    THEN [e EXCEPT !.csum = @ + DataBits(c), !.c2 = e.c1, !.c1 = c]
    ELSE e

\* the accumulation step of case CS_DATA_L: if (!(c & 0x80)) { ... }
BinAccumulate(e, c) ==
    IF ~TopBit(c)
    THEN [e EXCEPT !.csum = @ + c, !.c2 = e.c1, !.c1 = c]
    ELSE e

\* faulty variant: the engine stays in CS_DATA_L after the verdict
BinVerify_StaysInRecord(e, c) ==
    IF c = 128
    THEN LET checksum == Transmitted(e.c1, e.c2)
             calc == Computed(e.csum, e.c1, e.c2)
         IN  [e EXCEPT !.csum = calc,
                       !.printed = Append(@, Verdict(calc, checksum))]
    ELSE e

\* the verification step of case CS_DATA_L: if (c == 0x80) { ... }
BinVerify(e, c) ==
    IF c = 128
    THEN LET checksum == Transmitted(e.c1, e.c2)
             calc == Computed(e.csum, e.c1, e.c2)
         IN  [e EXCEPT !.csum = calc,
                       !.printed = Append(@, Verdict(calc, checksum)),
                       !.state = CS_TRAIL]
    ELSE e

BinData(e, c) ==
    BinVerify(BinAccumulate([e EXCEPT !.out = Append(@, c)], c), c)

capture_bin(e, c) ==
    CASE e.state = CS_START -> StartStep(e, c)
      [] e.state = CS_LEAD_IN -> BinLeadIn(e, c)
      [] e.state = CS_DATA_L -> BinData(e, c)
      [] e.state = CS_TRAIL -> TrailStep(e, c)
      [] e.state = CS_DONE -> DoneStep(e, c)
      [] e.state = CS_DATA_H -> DoneStep(e, c)

\* the three format tests of the for loop in main
Capture(e, c) ==
    CASE format = TF_BIN -> capture_bin(e, c)
      [] format = TF_RIM -> capture_rim(e, c)
      [] format = TF_RAW -> capture_raw(e, c, strip_char)

(***************************************************************************)
(* The tapes fed to the program.                                           *)
(***************************************************************************)
MinLead == 8          \* shortest lead-in run that passes leadinCount > 7

SeqsUpTo(S, n) == UNION {[1..m -> S] : m \in 0..n}

Lead(n) == [i \in 1..n |-> 128]

Rep(b, n) == [i \in 1..n |-> b]

Min(a, b) == IF a < b THEN a ELSE b

\* one byte of each class: sentinel, Origin, Data, Field, and 10xxxxxx # 0x80
FreeBytes == {128, 65, 63, 193, 129}

\* bytes tried right after a lead-in run
TrigBytes == {65, 193, 63, 129}

\* bytes of enumerated record bodies (none is the sentinel)
BodyBytes == {63, 65, 193, 129}

\* bytes of the bodies of records that carry a correct checksum
OkBodyBytes == {63, 65, 193}

Posts == {<<>>, <<63, 128>>}

FreeTapes == SeqsUpTo(FreeBytes, MaxFree)

ShortLeadTapes ==
    {pre \o Lead(n) \o <<t>> :
        pre \in {<<>>, <<63>>}, n \in 0..(MinLead - 1), t \in TrigBytes}

\* a record framed by the shortest or the longest lead-in run and by no
\* trailer, one trailer byte or the longest trailer
FramedTapes ==
    {Lead(n) \o <<t>> \o b \o Lead(k) \o q :
        n \in {MinLead, MaxLead}, t \in {65, 193},
        b \in SeqsUpTo(BodyBytes, MaxBody), k \in {0, 1, MaxTrail},
        q \in Posts}

RECURSIVE SumSeq(_)
SumSeq(s) == IF s = <<>> THEN 0 ELSE Head(s) + SumSeq(Tail(s))

\* the bytes of s whose top bit is clear (Data and Origin class)
DataOrigin(s) == SelectSeq(s, LAMBDA b : b < 128)

\* a record followed by the two bytes that encode its checksum, the
\* sentinel and k trailer bytes
WithChecksum(rec, k) ==
    LET S == SumSeq(DataOrigin(rec)) % 4096
    IN  rec \o <<(S \div 64) % 64, S % 64>> \o <<128>> \o Lead(k)

OkTapes ==
    {WithChecksum(Lead(n) \o <<t>> \o b, k) :
        n \in MinLead..MaxLead, t \in {65, 127},
        b \in SeqsUpTo(OkBodyBytes, MaxBody), k \in 0..1}

LongTapes ==
    {WithChecksum(Lead(MinLead) \o <<127>> \o Rep(127, m), 0) :
        m \in (MaxRun - 2)..MaxRun}

\* the stream 0x80 x9, 0x41, 0x3F, 0x24, 0x80, 0x80 x3
ScenarioTape == Lead(9) \o <<65, 63, 36>> \o <<128>> \o Lead(3)

\* a complete record, the byte that ends its trailer, and more bytes
AfterDoneTapes ==
    {Lead(MinLead) \o <<65, 128, 63>> \o q : q \in SeqsUpTo(FreeBytes, MaxFree)}

\* a lead-in run broken by one byte, a second run, and a short record
ResyncTapes ==
    {Lead(n) \o <<b>> \o Lead(k) \o <<65, 63, 128>> :
        n \in {4, MinLead}, b \in {63, 65, 193}, k \in {4, MinLead}}

Tapes ==
    FreeTapes \cup ShortLeadTapes \cup FramedTapes \cup OkTapes
        \cup LongTapes \cup AfterDoneTapes \cup {ScenarioTape}
        \cup ResyncTapes

\* b with bit k inverted
XorBit(b, k) == IF (b \div (2 ^ k)) % 2 = 1 THEN b - 2 ^ k ELSE b + 2 ^ k

FlipBit(t, i, k) == [t EXCEPT ![i] = XorBit(@, k)]

\* records with a correct checksum, of which one bit is then inverted
FlipBase ==
    {WithChecksum(Lead(n) \o <<65>> \o b, 0) :
        n \in MinLead..MaxLead, b \in SeqsUpTo(OkBodyBytes, MaxBody)}

\* tapes fed twice to the same engine
ReuseTapes == ShortLeadTapes \cup OkTapes \cup {ScenarioTape}

\* tapes captured in raw mode
RawTapes == FreeTapes \cup ShortLeadTapes \cup {ScenarioTape}

\* tapes during which a read() of the device may fail
FaultTapes == FreeTapes \cup {ScenarioTape}

Formats == {TF_RAW, TF_RIM, TF_BIN}

StripChars(fmt) == IF fmt = TF_RAW THEN {NoStrip, 128} ELSE {NoStrip}

(***************************************************************************)
(* main                                                                    *)
(***************************************************************************)
\* state of main and of the function statics when the program starts
InitMain ==
    /\ pos = 1
    /\ rdlen = 0
    /\ time_out = FALSE
    /\ pc = "setup"
    /\ attribs_ret = <<>>
    /\ exit_status = <<>>
    /\ state = CS_START
    /\ leadinCount = 0
    /\ csum = 0
    /\ c1 = 0
    /\ c2 = 0
    /\ out = <<>>
    /\ printed = <<>>
    /\ stderr = FALSE
    /\ session = 0
    /\ first = <<>>

\* the serial parameters main sets before argp_parse, in a run in which
\* every step of the setup succeeds
DefaultSetup ==
    /\ args_bits = 8
    /\ args_parity = "N"
    /\ env = {}

Init ==
    /\ format \in Formats
    /\ strip_char \in StripChars(format)
    /\ tape \in IF format = TF_RAW THEN RawTapes ELSE Tapes
    /\ faulty \in IF tape \in FaultTapes THEN BOOLEAN ELSE {FALSE}
    /\ flipped = <<0, 0>>
    /\ DefaultSetup
    /\ InitMain
    /\ NoBootRom

(***************************************************************************)
(* set_interface_attribs: the return value for the given parity and bits,  *)
(* get_ok and set_ok telling whether tcgetattr and tcsetattr succeed.      *)
(***************************************************************************)
set_interface_attribs(parity, bits, get_ok, set_ok) ==
    IF ~get_ok THEN -1
    ELSE IF ~(bits = 7 \/ bits = 8) THEN -1
    ELSE IF ~(parity = "N" \/ parity = "E" \/ parity = "O") THEN -1
    ELSE IF ~set_ok THEN -1
    ELSE 0

\* exit status of a process whose main returns -1
ReturnMinus1 == 255

\* exit status set by argp_usage
ArgpErrExit == 64

\* main up to the read loop: argp_parse, open, set_interface_attribs, fopen
Setup ==
    /\ pc = "setup"
    /\ LET r == set_interface_attribs(args_parity, args_bits,
                                      "tcgetattr" \notin env,
                                      "tcsetattr" \notin env)
       IN  IF "argp" \in env
           THEN /\ exit_status' = <<ArgpErrExit>>
                /\ pc' = "exited"
                /\ UNCHANGED attribs_ret
           ELSE IF "open" \in env
           THEN /\ exit_status' = <<ReturnMinus1>>
                /\ pc' = "exited"
                /\ UNCHANGED attribs_ret
           ELSE /\ attribs_ret' = <<r>>
                /\ IF r < 0 \/ "fopen" \in env
                   THEN /\ exit_status' = <<ReturnMinus1>>
                        /\ pc' = "exited"
                   ELSE /\ pc' = "read"
                        /\ UNCHANGED exit_status
    /\ UNCHANGED romvars
    /\ UNCHANGED <<inputs, pos, rdlen, time_out, state, leadinCount, csum, c1,
                   c2, out, printed, stderr, session, first>>

\* faulty variant: a timeout ends the loop in CS_START too
LoopContinues_NoStart(st, to) == st # CS_DONE /\ ~to

\* while (state == CS_START || (state != CS_DONE && !time_out));
LoopContinues(st, to) == st = CS_START \/ (st # CS_DONE /\ ~to)

\* rdlen = read(fd, buf, sizeof(buf) - 1), and the branches on its result
Read ==
    /\ pc = "read"
    /\ \E n \in (IF faulty THEN -1 ELSE 0)..Min(MaxRd, Len(tape) - pos + 1) :
          IF n > 0
          THEN /\ rdlen' = n
               /\ pc' = "for"
               /\ UNCHANGED <<time_out, stderr>>
          ELSE /\ time_out' = TRUE
               /\ stderr' = (stderr \/ n < 0)
               /\ pc' = "while"
               /\ UNCHANGED rdlen
    /\ UNCHANGED romvars
    /\ UNCHANGED <<inputs, pos, state, leadinCount, csum, c1, c2, out,
                   printed, session, first, attribs_ret, exit_status>>

\* one iteration of: for (p = buf; rdlen-- > 0; p++)
CaptureByte ==
    /\ pc = "for"
    /\ rdlen > 0
    /\ LET e == Capture(Eng, tape[pos])
       IN  /\ state' = e.state
           /\ leadinCount' = e.leadinCount
           /\ csum' = e.csum
           /\ c1' = e.c1
           /\ c2' = e.c2
           /\ out' = e.out
           /\ printed' = e.printed
    /\ pos' = pos + 1
    /\ rdlen' = rdlen - 1
    /\ UNCHANGED romvars
    /\ UNCHANGED <<inputs, time_out, pc, stderr, session, first, attribs_ret,
                   exit_status>>

\* the for loop has handled every byte of the read: time_out = false
EndFor ==
    /\ pc = "for"
    /\ rdlen = 0
    /\ time_out' = FALSE
    /\ pc' = "while"
    /\ UNCHANGED romvars
    /\ UNCHANGED <<inputs, pos, rdlen, state, leadinCount, csum, c1, c2, out,
                   printed, stderr, session, first, attribs_ret, exit_status>>

\* the loop condition; leaving the loop closes fd and fCapture and reaches
\* the end of main, which has no return statement: the status is 0
LoopTest ==
    /\ pc = "while"
    /\ IF LoopContinues(state, time_out)
       THEN /\ pc' = "read"
            /\ UNCHANGED exit_status
       ELSE /\ pc' = "closed"
            /\ exit_status' = <<0>>
    /\ UNCHANGED romvars
    /\ UNCHANGED <<inputs, pos, rdlen, time_out, state, leadinCount, csum, c1,
                   c2, out, printed, stderr, session, first, attribs_ret>>

Next == Setup \/ Read \/ CaptureByte \/ EndFor \/ LoopTest

Spec == Init /\ [][Next]_vars

(***************************************************************************)
(* A BIN capture of a record with a correct checksum in which one bit of   *)
(* one byte before the checksum bytes was inverted.                        *)
(***************************************************************************)
InitFlip ==
    /\ format = TF_BIN
    /\ strip_char = NoStrip
    /\ \E rec \in FlipBase :
          \E i \in 1..(Len(rec) - 3) :
            \E k \in 0..5 :
               /\ tape = FlipBit(rec, i, k)
               /\ flipped = <<i, k>>
    /\ faulty = FALSE
    /\ DefaultSetup
    /\ InitMain
    /\ NoBootRom

SpecFlip == InitFlip /\ [][Next]_vars

(***************************************************************************)
(* The engine used for a second record: the caller sets its state back to  *)
(* CS_START and feeds the same tape again, into a new output file.  The    *)
(* function statics keep their values, as C statics do.                    *)
(***************************************************************************)
InitReuse ==
    /\ format \in {TF_RIM, TF_BIN}
    /\ strip_char = NoStrip
    /\ tape \in ReuseTapes
    /\ faulty = FALSE
    /\ flipped = <<0, 0>>
    /\ DefaultSetup
    /\ InitMain
    /\ NoBootRom

NewRecord ==
    /\ session = 0
    /\ pc \in {"read", "while", "closed"}
    /\ pos > Len(tape)
    /\ session' = session + 1
    /\ first' = <<state, out, printed>>
    /\ state' = CS_START
    /\ out' = <<>>
    /\ printed' = <<>>
    /\ pos' = 1
    /\ time_out' = FALSE
    /\ pc' = "read"
    /\ exit_status' = <<>>
    /\ UNCHANGED romvars
    /\ UNCHANGED <<inputs, rdlen, leadinCount, csum, c1, c2, stderr,
                   attribs_ret>>

NextReuse == Next \/ NewRecord

SpecReuse == InitReuse /\ [][NextReuse]_vars

(***************************************************************************)
(* The capture program started with each accepted serial parameter, in an  *)
(* environment in which any step of the setup may fail.                    *)
(***************************************************************************)
\* the steps of the setup that can fail
Failures == {"argp", "open", "tcgetattr", "tcsetattr", "fopen"}

\* the values parse_opt accepts for -b and -p
BitsOptions == {5, 6, 7, 8}

ParityOptions == {"N", "O", "E", "M"}

SetupTapes == {<<>>, <<128>>, ScenarioTape}

InitSetup ==
    /\ format \in {TF_RIM, TF_BIN}
    /\ strip_char = NoStrip
    /\ tape \in SetupTapes
    /\ faulty \in BOOLEAN
    /\ flipped = <<0, 0>>
    /\ args_bits \in BitsOptions
    /\ args_parity \in ParityOptions
    /\ env \in SUBSET Failures
    /\ InitMain
    /\ NoBootRom

SpecSetup == InitSetup /\ [][Next]_vars

(***************************************************************************)
(* create-bootrom                                                          *)
(***************************************************************************)
TRAIL == 128
FIELD == 192
ORIGIN == 64
DATA == 0
MASK == 192

ROM_LOADADDR == 8
ROM_LOADEX == 4
ROM_DEPOSIT == 2
ROM_START == 1

\* getc's EOF
EOF == -1

\* the hard start address 020 of line 99
StartAddress == 16

\* bit k (0 is the lowest) of the two's complement representation of x
Bit(x, k) == (x \div (2 ^ k)) % 2

\* a | b and a & b for numbers of up to 12 bits
BitOr(a, b) ==
    LET bits == {k \in 0..11 : Bit(a, k) = 1 \/ Bit(b, k) = 1}
        F[k \in 0..12] ==
            IF k = 12 THEN 0
            ELSE (IF k \in bits THEN 2 ^ k ELSE 0) + F[k + 1]
    IN  F[0]

BitAnd(a, b) ==
    LET bits == {k \in 0..11 : Bit(a, k) = 1 /\ Bit(b, k) = 1}
        F[k \in 0..12] ==
            IF k = 12 THEN 0
            ELSE (IF k \in bits THEN 2 ^ k ELSE 0) + F[k + 1]
    IN  F[0]

\* faulty variant: only the top bit of the byte selects the case
Masked_TopBitOnly(ch) == (ch \div 128) * 128

\* ch & MASK, the value the switch of the reading loop branches on
Masked(ch) == BitAnd(ch, MASK)

\* (ch & 0x3f) << 6 | (ch1 & 0x3f); of EOF the six low bits are all set
Word(ch, ch1) == BitOr((ch % 64) * 64, ch1 % 64)

\* faulty variant: the second entry of each pair has LoadExtension alone
autoStart_PlainExtension ==
    << RomData(ROM_LOADADDR, 0),
       RomData(ROM_LOADEX, 0),
       RomData(ROM_LOADADDR, 128),
       RomData(ROM_LOADEX, 0),
       RomData(ROM_LOADADDR, 1024),
       RomData(ROM_LOADEX, 0),
       RomData(ROM_LOADADDR, 2176),
       RomData(ROM_LOADEX, 0) >>

\* the struct romData array autoStart
autoStart ==
    << RomData(ROM_LOADADDR, 0),
       RomData(BitOr(ROM_START, ROM_LOADEX), 0),
       RomData(ROM_LOADADDR, 128),
       RomData(BitOr(ROM_START, ROM_LOADEX), 0),
       RomData(ROM_LOADADDR, 1024),
       RomData(BitOr(ROM_START, ROM_LOADEX), 0),
       RomData(ROM_LOADADDR, 2176),
       RomData(BitOr(ROM_START, ROM_LOADEX), 0) >>

\* faulty variant: the two middle nibbles go to the wrong chips
write_entry_Swapped(data, out1, out2) ==
    << out1 \o <<data.cmd % 256, (data.data \div 256) % 16>>,
       out2 \o <<(data.data \div 16) % 16, data.data % 16>> >>

\* write_entry: the two files after the four fputc calls
write_entry(data, out1, out2) ==
    << out1 \o <<data.cmd % 256, (data.data \div 16) % 16>>,
       out2 \o <<(data.data \div 256) % 16, data.data % 16>> >>

\* write_entry for each element of a sequence of entries, in order
WriteEntries(entries, out1, out2) ==
    LET chip(c) ==
            [j \in 1..(2 * Len(entries)) |->
                write_entry(entries[(j + 1) \div 2], <<>>, <<>>)[c][2 - (j % 2)]]
    IN  <<out1 \o chip(1), out2 \o chip(2)>>

\* ch1 = getc(fp): the byte at index p, EOF past the end of the file
Getc(t, p) == IF p <= Len(t) THEN t[p] ELSE EOF

\* an index the table has
InTable(k) == k \in 0..(TableSize - 1)

\* the table after bootloader[k] = entries[1], bootloader[k+1] = entries[2],
\* ...; a store outside the table does not reach the table
Stored(tbl, k, entries) ==
    [j \in 0..(TableSize - 1) |->
        IF j - k + 1 \in 1..Len(entries) THEN entries[j - k + 1] ELSE tbl[j]]

\* what a store outside the table does to the process: the store lands in
\* memory the program reads nowhere, or the process is killed
Outcomes(k, cnt) ==
    IF InTable(k) /\ InTable(k + cnt - 1) THEN {"stored"}
    ELSE {"lost", "crash"}

\* the process was killed: the output files are never written
Crash ==
    /\ rpc' = "crashed"
    /\ rom1' = <<>>
    /\ rom2' = <<>>
    /\ UNCHANGED <<btape, fpos, rom_n, rom_sum, bootloader, stdout>>

\* a line of create-bootrom's output
Line(tag, args) == [tag |-> tag, args |-> args]

\* faulty variant: an Origin pair gets no LoadExtension entry
OriginEntries_NoExtension(w) == <<RomData(ROM_LOADADDR, w)>>

\* the entries stored by case ORIGIN and by case DATA
OriginEntries(w) == <<RomData(ROM_LOADADDR, w), RomData(ROM_LOADEX, 0)>>

DataEntries(w) == <<RomData(ROM_DEPOSIT, w)>>

\* case ORIGIN and case DATA: ch1 = getc(fp), the two additions to checksum,
\* the stores at bootloader[n++], the printf
ReadPair(ch, tag) ==
    LET ch1 == Getc(btape, fpos + 1)
        sum == rom_sum + ch1 + ch
        w == Word(ch, ch1)
        entries == IF tag = "A" THEN OriginEntries(w) ELSE DataEntries(w)
    IN  \E o \in Outcomes(rom_n, Len(entries)) :
          IF o = "crash" THEN Crash
          ELSE /\ bootloader' = Stored(bootloader, rom_n, entries)
               /\ rom_n' = rom_n + Len(entries)
               /\ rom_sum' = sum
               /\ fpos' = fpos + 2
               /\ stdout' = Append(stdout,
                                   Line(tag, IF tag = "D" THEN <<w, sum>>
                                             ELSE <<w>>))
               /\ UNCHANGED <<btape, rom1, rom2, rpc>>

\* one iteration of: while ((ch = getc(fp)) != EOF) switch (ch & MASK)
ReadTape ==
    /\ rpc = "read"
    /\ fpos <= Len(btape)
    /\ LET ch == btape[fpos]
       IN  CASE Masked(ch) = TRAIL ->
                  /\ stdout' = Append(stdout, Line("L/T", <<>>))
                  /\ fpos' = fpos + 1
                  /\ UNCHANGED <<btape, rom_n, rom_sum, bootloader, rom1,
                                 rom2, rpc>>
             [] Masked(ch) = FIELD ->
                  /\ stdout' = Append(stdout, Line("E", <<BitAnd(ch, 7)>>))
                  /\ rom_sum' = rom_sum + ch
                  /\ fpos' = fpos + 1
                  /\ UNCHANGED <<btape, rom_n, bootloader, rom1, rom2, rpc>>
             [] Masked(ch) = ORIGIN -> ReadPair(ch, "A")
             [] Masked(ch) = DATA -> ReadPair(ch, "D")
    /\ UNCHANGED <<rom_i, addr, ext_addr, report>>
    /\ UNCHANGED capvars

\* getc returned EOF: fclose(fp), and the two output files are opened
EndOfTape ==
    /\ rpc = "read"
    /\ fpos > Len(btape)
    /\ rpc' = "autostart"
    /\ UNCHANGED <<btape, fpos, rom_n, rom_sum, bootloader, stdout, rom1,
                   rom2, rom_i, addr, ext_addr, report>>
    /\ UNCHANGED capvars

\* for (i = 0; i < 8; i++) write_entry(autoStart[i], out1, out2)
WriteAutoStart ==
    /\ rpc = "autostart"
    /\ LET w == WriteEntries(autoStart, rom1, rom2)
       IN  /\ rom1' = w[1]
           /\ rom2' = w[2]
    /\ rpc' = "strip"
    /\ UNCHANGED <<btape, fpos, rom_n, rom_sum, bootloader, stdout, rom_i,
                   addr, ext_addr, report>>
    /\ UNCHANGED capvars

\* faulty variant: the last two entries are given up for the start entry
StartEntryIndex_TwoStripped(k) == k - 2

\* n--: the index at which lines 98-99 store the start entry
StartEntryIndex(k) == k - 1

\* n--; bootloader[n].cmd = ROM_LOADADDR | ROM_START;
\* bootloader[n++].data = 020
StripChecksum ==
    /\ rpc = "strip"
    /\ LET k == StartEntryIndex(rom_n)
           entry == RomData(BitOr(ROM_LOADADDR, ROM_START), StartAddress)
       IN  \E o \in Outcomes(k, 1) :
             IF o = "crash" THEN Crash
             ELSE /\ bootloader' = Stored(bootloader, k, <<entry>>)
                  /\ rom_n' = k + 1
                  /\ rpc' = "program"
                  /\ UNCHANGED <<btape, fpos, rom_sum, stdout, rom1, rom2>>
    /\ UNCHANGED <<rom_i, addr, ext_addr, report>>
    /\ UNCHANGED capvars

\* for (i = 8; i < 128; i++) write_entry(bootloader[i-8], out1, out2), and
\* the two fclose calls
WriteProgram ==
    /\ rpc = "program"
    /\ LET w == WriteEntries([k \in 1..(TableSize - 8) |-> bootloader[k - 1]],
                             rom1, rom2)
       IN  /\ rom1' = w[1]
           /\ rom2' = w[2]
    /\ rpc' = "done"
    /\ UNCHANGED <<btape, fpos, rom_n, rom_sum, bootloader, stdout, rom_i,
                   addr, ext_addr, report>>
    /\ UNCHANGED capvars

(***************************************************************************)
(* parse-bootrom, run on the two files create-bootrom has written          *)
(***************************************************************************)
\* the number of bytes of a ROM file
RomBytes == 256

\* a line of parse-bootrom's output: the command nibble, <<ext_addr, addr>>
\* when the slot deposits (<<>> when it does not), and the data
Slot(opr, loc, data) == [opr |-> opr, loc |-> loc, data |-> data]

\* faulty variant: the address is not incremented after a deposit
AfterDeposit_Stuck(a) == a

\* addr++
AfterDeposit(a) == a + 1

\* faulty variant: the middle nibble is not shifted
SlotData_MiddleUnshifted(hi, mid, lo) == BitOr(BitOr(hi * 256, mid), lo)

\* (buff_prom2[i] << 8) | (buff_prom1[i+1] << 4) | (buff_prom2[i+1])
SlotData(hi, mid, lo) == BitOr(BitOr(hi * 256, mid * 16), lo)

\* one iteration of: for (i = 0; i < 256; i += 2)
ParseSlot ==
    /\ rpc = "done"
    /\ rom_i < RomBytes
    /\ LET data == SlotData(rom2[rom_i + 1], rom1[rom_i + 2], rom2[rom_i + 2])
           opr == rom1[rom_i + 1]
           a == IF BitAnd(opr, 8) # 0 THEN data ELSE addr
           x == IF BitAnd(opr, 4) # 0 THEN BitAnd(data, 7) ELSE ext_addr
       IN  /\ ext_addr' = x
           /\ IF BitAnd(opr, 2) # 0
              THEN /\ report' = Append(report, Slot(opr, <<x, a>>, data))
                   /\ addr' = AfterDeposit(a)
              ELSE /\ report' = Append(report, Slot(opr, <<>>, data))
                   /\ addr' = a
    /\ rom_i' = rom_i + 2
    /\ UNCHANGED <<btape, fpos, rom_n, rom_sum, bootloader, stdout, rom1,
                   rom2, rpc>>
    /\ UNCHANGED capvars

(***************************************************************************)
(* The tapes given to create-bootrom.                                      *)
(***************************************************************************)
\* one byte of each case of the switch, and a second 10xxxxxx byte
RomFreeBytes == {128, 165, 195, 66, 21}

\* the two bytes of a 12-bit word on a BIN tape
Hi(w) == (w \div 64) % 64

Lo(w) == w % 64

OriginPair(a) == <<ORIGIN + Hi(a), Lo(a)>>

DataPair(v) == <<Hi(v), Lo(v)>>

\* the pairs of a sequence of words, in order
DataPairs(vs) ==
    [j \in 1..(2 * Len(vs)) |-> DataPair(vs[(j + 1) \div 2])[2 - (j % 2)]]

\* the checksum pair of a BIN tape: the sum mod 4096 of its bytes
ChecksumPair(t) == DataPair(SumSeq(t) % 4096)

\* 0200 and 7777; 1234, 5670 and 0
WordAddresses == {128, 4095}

WordValues == {668, 3000, 0}

\* an origin, up to MaxWords data words, with and without the checksum pair
WordTapes ==
    LET plain == {OriginPair(a) \o DataPairs(vs) :
                     a \in WordAddresses, vs \in SeqsUpTo(WordValues, MaxWords)}
    IN  plain \cup {t \o ChecksumPair(t) : t \in plain}

\* an origin and K data words 1, 2, ..., K
LongTape(K) == OriginPair(128) \o DataPairs([k \in 1..K |-> k])

\* a data word and K origins: the table index is odd at each origin
OddTape(K) ==
    DataPair(1)
        \o [j \in 1..(2 * K) |-> OriginPair((j + 1) \div 2)[2 - (j % 2)]]

\* tapes that fill the program slots of the ROM, and tapes that fill the
\* table and go up to MaxOver entries beyond it
LongRomTapes ==
    {LongTape(N - 2) : N \in (TableSize - 9)..(TableSize - 7)}
    \cup {LongTape(N - 2) : N \in (TableSize - 1)..(TableSize + MaxOver)}
    \cup {OddTape(TableSize \div 2)}

\* leader, a Field byte, an origin, a data word, its checksum, trailer
MixedTape ==
    LET body == <<195>> \o OriginPair(128) \o DataPair(668)
    IN  <<128>> \o body \o ChecksumPair(body) \o <<128>>

RomTapes ==
    SeqsUpTo(RomFreeBytes, MaxRomFree)
    \cup {MixedTape}
    \cup {<<b>> : b \in 0..255}
    \cup WordTapes
    \cup LongRomTapes

InitRom ==
    /\ btape \in RomTapes
    /\ InitCreate
    /\ format = TF_RAW
    /\ strip_char = NoStrip
    /\ tape = <<>>
    /\ faulty = FALSE
    /\ flipped = <<0, 0>>
    /\ DefaultSetup
    /\ InitMain

NextRom ==
    \/ ReadTape
    \/ EndOfTape
    \/ WriteAutoStart
    \/ StripChecksum
    \/ WriteProgram
    \/ ParseSlot

SpecRom == InitRom /\ [][NextRom]_vars

(***************************************************************************)
(* write_entry and the decoder applied to every RomWord: the table holds   *)
(* 120 of the RomWords (command, value) at a time, create-bootrom writes   *)
(* it after the autostart entries and parse-bootrom decodes the images.    *)
(***************************************************************************)
\* a command nibble has 4 bits, a value has 12
CmdCount == 16

WordCount == 4096

\* the e-th RomWord: e counts through the commands, then through the values
Entry(e) == RomData(e % CmdCount, (e \div CmdCount) % WordCount)

\* the e-th and the 119 RomWords after it, in the program part of the table
EntryTable(e) ==
    [k \in 0..(TableSize - 1) |->
        IF k < TableSize - 8 THEN Entry(e + k) ELSE RomData(0, 0)]

\* the first RomWord of each table
EntryStarts ==
    {(TableSize - 8) * m :
        m \in 0..((CmdCount * WordCount) \div (TableSize - 8))}

InitEntries ==
    /\ \E e \in EntryStarts : bootloader = EntryTable(e)
    /\ rom1 = WriteEntries(autoStart, <<>>, <<>>)[1]
    /\ rom2 = WriteEntries(autoStart, <<>>, <<>>)[2]
    /\ rpc = "program"
    /\ btape = <<>>
    /\ fpos = 1
    /\ rom_n = 0
    /\ rom_sum = 0
    /\ stdout = <<>>
    /\ rom_i = 0
    /\ addr = 0
    /\ ext_addr = 0
    /\ report = <<>>
    /\ format = TF_RAW
    /\ strip_char = NoStrip
    /\ tape = <<>>
    /\ faulty = FALSE
    /\ flipped = <<0, 0>>
    /\ DefaultSetup
    /\ InitMain

NextEntries == WriteProgram \/ ParseSlot

SpecEntries == InitEntries /\ [][NextEntries]_vars

(***************************************************************************)
(* Vocabulary of the properties: the classes of a tape byte and the parts  *)
(* of a tape.                                                              *)
(***************************************************************************)
IsData(b) == b \in 0..63

IsOrigin(b) == b \in 64..127

IsField(b) == b \in 192..255

InRecord == IF format = TF_RIM THEN CS_DATA_H ELSE CS_DATA_L

RimOrBin == format \in {TF_RIM, TF_BIN}

\* the least element of a non-empty set of numbers
Least(S) == CHOOSE i \in S : \A j \in S : i <= j

\* length of the run of 0x80 bytes that starts the tape
LeadRun(t) ==
    LET nz == {i \in 1..Len(t) : t[i] # 128}
    IN  IF nz = {} THEN Len(t) ELSE Least(nz) - 1

\* index of the first 0x80 at or after from, 0 if there is none
SentinelIdx(t, from) ==
    LET idx == {i \in from..Len(t) : t[i] = 128}
    IN  IF idx = {} THEN 0 ELSE Least(idx)

\* index of the first byte other than 0x80 at or after from, 0 if none
NonLeadIdx(t, from) ==
    LET idx == {i \in from..Len(t) : t[i] # 128}
    IN  IF idx = {} THEN 0 ELSE Least(idx)

\* sum of the Data- and Origin-class bytes of t[from..to]
SumDataOrigin(t, from, to) ==
    SumSeq(SelectSeq(SubSeq(t, from, to), LAMBDA b : IsData(b) \/ IsOrigin(b)))

\* t is: n >= 8 lead-in bytes, an Origin byte, a body of Data, Origin and
\* Field bytes, the two bytes that encode the sum S of the record, 0x80, and
\* anything after that
ChecksumRecord(t) ==
    LET n == LeadRun(t)
        m == SentinelIdx(t, n + 2)
        S == SumDataOrigin(t, n + 1, m - 3) % 4096
    IN  /\ n >= 8
        /\ Len(t) >= n + 4
        /\ IsOrigin(t[n + 1])
        /\ m >= n + 4
        /\ \A i \in (n + 2)..(m - 3) :
              IsData(t[i]) \/ IsOrigin(t[i]) \/ IsField(t[i])
        /\ t[m - 2] = (S \div 64) % 64
        /\ t[m - 1] = S % 64

\* the sum S of such a record, and the index of its closing 0x80
RecordSum(t) ==
    SumDataOrigin(t, LeadRun(t) + 1, SentinelIdx(t, LeadRun(t) + 2) - 3) % 4096

RecordEnd(t) == SentinelIdx(t, LeadRun(t) + 2)

\* C1: in BIN mode, from a fresh session, a record of at least 8 lead-in
\* bytes, an Origin byte and a body of Data/Origin/Field bytes that is
\* followed by (S>>6)&0x3f, S&0x3f and 0x80, S being the sum mod 4096 of its
\* Data- and Origin-class bytes, is reported once, as "Checksum OK" with S.
C1_ChecksumRoundTrip ==
    (/\ format = TF_BIN
     /\ session = 0
     /\ ChecksumRecord(tape)
     /\ pos > RecordEnd(tape))
        => printed = << <<"OK", RecordSum(tape)>> >>

\* a record whose byte sum exceeds 12 bits has been verified
C1_Witness ==
    /\ format = TF_BIN
    /\ ChecksumRecord(tape)
    /\ pos > RecordEnd(tape)
    /\ SumDataOrigin(tape, 1, RecordEnd(tape) - 3) >= 4096
    /\ printed = << <<"OK", RecordSum(tape)>> >>

\* the tape before the bit was inverted
Unflipped == FlipBit(tape, flipped[1], flipped[2])

\* printed is one "Checksum FAIL" line with two different values
OneFail ==
    /\ Len(printed) = 1
    /\ printed[1][1] = "FAIL"
    /\ printed[1][2] # printed[1][3]

\* C2 as stated: inverting one of the bits 0..5 of any one byte before the
\* two checksum bytes of a record that verifies makes capture_bin report
\* "Checksum FAIL" with differing values.
C2_AnyByteFlipFails ==
    (/\ format = TF_BIN
     /\ flipped # <<0, 0>>
     /\ ChecksumRecord(Unflipped)
     /\ flipped[1] <= RecordEnd(Unflipped) - 3
     /\ pos > Len(tape))
        => OneFail

\* C2 amended: inverting one of the bits 0..5 of one Data- or Origin-class
\* byte (the trigger or a body byte) before the two checksum bytes of a
\* record that verifies makes capture_bin report "Checksum FAIL" with two
\* differing values.
C2_DataOriginFlipFails ==
    (/\ format = TF_BIN
     /\ flipped # <<0, 0>>
     /\ ChecksumRecord(Unflipped)
     /\ flipped[1] <= RecordEnd(Unflipped) - 3
     /\ Unflipped[flipped[1]] < 128
     /\ pos > RecordEnd(Unflipped))
        => OneFail

\* a body byte (not the trigger) was inverted and the record was rejected
C2_Witness ==
    /\ format = TF_BIN
    /\ flipped # <<0, 0>>
    /\ ChecksumRecord(Unflipped)
    /\ flipped[1] > LeadRun(Unflipped) + 1
    /\ flipped[1] <= RecordEnd(Unflipped) - 3
    /\ IsData(Unflipped[flipped[1]])
    /\ pos > RecordEnd(Unflipped)
    /\ OneFail

\* t is [0x80 x8][origin][d1..dn][0x80][0x80 x k], no di being 0x80
RimRecord(t) ==
    /\ LeadRun(t) = 8
    /\ Len(t) >= 10
    /\ IsOrigin(t[9])
    /\ SentinelIdx(t, 10) > 0
    /\ NonLeadIdx(t, SentinelIdx(t, 10)) = 0

\* C3 as stated: the bytes capture_rim emits for such a tape are the lead-in,
\* the origin, the body and the first 0x80, and not the k bytes after it.
C3_TrailerNotEmitted ==
    (/\ format = TF_RIM
     /\ session = 0
     /\ RimRecord(tape)
     /\ pos > Len(tape))
        => out = SubSeq(tape, 1, SentinelIdx(tape, 10))

\* C3 amended: the bytes capture_rim emits for [0x80 x8][origin][d1..dn]
\* [0x80][0x80 x k] are the whole input, the k trailer bytes included.
C3_RimIdentity ==
    (/\ format = TF_RIM
     /\ session = 0
     /\ RimRecord(tape)
     /\ pos > Len(tape))
        => out = tape

\* a RIM record with a body and a trailer has been copied
C3_Witness ==
    /\ format = TF_RIM
    /\ RimRecord(tape)
    /\ pos > Len(tape)
    /\ SentinelIdx(tape, 10) > 10
    /\ SentinelIdx(tape, 10) < Len(tape)
    /\ out = tape

\* the tape starts with n < 8 bytes 0x80 followed by an Origin byte
ShortLeadIn(t) ==
    /\ LeadRun(t) < 8
    /\ Len(t) > LeadRun(t)
    /\ IsOrigin(t[LeadRun(t) + 1])

\* C4: in RIM or BIN mode, from a fresh session, n < 8 bytes 0x80 followed
\* by an Origin byte never leave CS_LEAD_IN: nothing is written up to and
\* including the Origin byte, after which the engine is in CS_LEAD_IN with
\* leadinCount = 0.
C4_ShortLeadInStays ==
    (/\ RimOrBin
     /\ session = 0
     /\ ShortLeadIn(tape)
     /\ pos <= LeadRun(tape) + 2)
        => /\ state \in {CS_START, CS_LEAD_IN}
           /\ out = <<>>
           /\ pos = LeadRun(tape) + 2 => (state = CS_LEAD_IN /\ leadinCount = 0)

\* seven lead-in bytes and an Origin byte have been consumed
C4_Witness ==
    /\ RimOrBin
    /\ ShortLeadIn(tape)
    /\ LeadRun(tape) = 7
    /\ pos = 9
    /\ state = CS_LEAD_IN
    /\ leadinCount = 0

\* C5: in RIM or BIN mode, from a fresh session whose first 8 bytes are 0x80
\* and whose ninth byte is an Origin byte, the engine is in its in-record
\* state after the ninth byte and has written exactly 8 bytes 0x80 and that
\* Origin byte.
C5_EightLeadInStarts ==
    (/\ RimOrBin
     /\ session = 0
     /\ LeadRun(tape) = 8
     /\ Len(tape) >= 9
     /\ IsOrigin(tape[9])
     /\ pos = 10)
        => /\ state = InRecord
           /\ out = Lead(8) \o <<tape[9]>>

\* a BIN record has started after exactly 8 lead-in bytes
C5_Witness ==
    /\ format = TF_BIN
    /\ LeadRun(tape) = 8
    /\ Len(tape) >= 9
    /\ IsOrigin(tape[9])
    /\ pos = 10
    /\ state = CS_DATA_L
    /\ Len(out) = 9

\* the tape starts with a lead-in of at least 8 bytes and a byte that starts
\* a record, and the record has a closing 0x80
FramedRecord(t) ==
    /\ LeadRun(t) >= 8
    /\ Len(t) > LeadRun(t)
    /\ \/ IsOrigin(t[LeadRun(t) + 1])
       \/ format = TF_BIN /\ IsField(t[LeadRun(t) + 1])
    /\ RecordEnd(t) > 0

\* index of the byte that ends the trailer of a framed record, 0 if none
TrailerEnd(t) == NonLeadIdx(t, RecordEnd(t))

\* C6: in RIM or BIN mode, once the first byte other than 0x80 that follows
\* the closing 0x80 of a record has been consumed, the engine is in CS_DONE
\* and the output is the tape up to, and without, that byte, whatever bytes
\* (0x80 included) come after it.
C6_TrailerEndsAtFirstOther ==
    (/\ RimOrBin
     /\ session = 0
     /\ FramedRecord(tape)
     /\ TrailerEnd(tape) > 0
     /\ pos > TrailerEnd(tape))
        => /\ state = CS_DONE
           /\ out = SubSeq(tape, 1, TrailerEnd(tape) - 1)

\* a 0x80 byte has been consumed after the byte that ended the trailer
C6_Witness ==
    /\ RimOrBin
    /\ FramedRecord(tape)
    /\ TrailerEnd(tape) > RecordEnd(tape) + 1
    /\ pos > TrailerEnd(tape) + 1
    /\ tape[TrailerEnd(tape) + 1] = 128
    /\ state = CS_DONE

\* C7 as stated: the stream 0x80 x9, 0x41, 0x3F, 0x24, 0x80, 0x80 x3 makes
\* capture_bin report "Checksum FAIL" with computed 0 and received 0x93F.
C7_ScenarioAsStated ==
    (/\ format = TF_BIN
     /\ session = 0
     /\ tape = ScenarioTape
     /\ pos > 13)
        => printed = << <<"FAIL", 0, 2367>> >>

\* C7 amended: the stream 0x80 x9, 0x41, 0x3F, 0x24, 0x80, 0x80 x3 makes
\* capture_bin report "Checksum FAIL" with computed 0x41 (the Origin byte,
\* which is part of the sum) and received 0xFE4 (0x3F is the high half,
\* 0x24 the low half).
C7_Scenario ==
    (/\ format = TF_BIN
     /\ session = 0
     /\ tape = ScenarioTape
     /\ pos > 13)
        => printed = << <<"FAIL", 65, 4068>> >>

\* the whole scenario stream has been consumed
C7_Witness ==
    /\ format = TF_BIN
    /\ tape = ScenarioTape
    /\ pos > Len(tape)
    /\ state = CS_TRAIL
    /\ Len(printed) = 1

\* C8: when the engine state is set back to CS_START and the same record is
\* fed again, the state reached, the bytes written and the checksum report
\* are those of the first, fresh, session.
C8_SessionIsolation ==
    (/\ session = 1
     /\ pos > Len(tape)
     /\ rdlen = 0)
        => <<state, out, printed>> = first

\* a step of main in which read() returned no byte
TimeoutStep == pc = "read" /\ pc' = "while"

\* C9 as stated: a read that returns no byte changes neither the engine state
\* nor the output, and while the engine is in CS_START or CS_LEAD_IN (RIM
\* and BIN) the loop goes on reading after it.
C9_TimeoutKeepsWaitingInLeadIn ==
    [][/\ TimeoutStep => (state' = state /\ out' = out)
       /\ (/\ RimOrBin
           /\ pc = "while"
           /\ time_out
           /\ state \in {CS_START, CS_LEAD_IN}) => pc' = "read"]_vars

\* C9 amended: a read that returns no byte changes neither the engine state
\* nor the output; while the engine is in CS_START the loop goes on reading
\* after it, and in CS_LEAD_IN (as in every later state) it ends the
\* capture.
C9_TimeoutKeepsWaitingInStart ==
    [][/\ TimeoutStep => (state' = state /\ out' = out)
       /\ (pc = "while" /\ time_out /\ state = CS_START) => pc' = "read"
       /\ (/\ RimOrBin
           /\ pc = "while"
           /\ time_out
           /\ state = CS_LEAD_IN) => pc' = "closed"]_vars

\* the capture has ended on a timeout with the engine still in CS_LEAD_IN
C9_Witness ==
    /\ RimOrBin
    /\ pc = "closed"
    /\ time_out
    /\ state = CS_LEAD_IN
    /\ out = <<>>

\* C10: in RIM and BIN mode, once the engine is in CS_DONE no step changes
\* the state, the output, the checksum accumulator, the byte window, the
\* leader counter or the checksum report.
C10_DoneAbsorbing ==
    [][(RimOrBin /\ state = CS_DONE)
          => UNCHANGED <<state, out, csum, c1, c2, leadinCount, printed>>]_vars

\* a byte has been consumed by an engine that was already in CS_DONE
C10_Witness ==
    /\ RimOrBin
    /\ state = CS_DONE
    /\ FramedRecord(tape)
    /\ TrailerEnd(tape) > 0
    /\ pos > TrailerEnd(tape) + 1
    /\ tape[TrailerEnd(tape) + 1] # 128

\* the process has ended
Ended == exit_status # <<>>

\* a step of the setup failed, or a read from the serial device failed
SetupOrIoFailure == pc = "exited" \/ stderr

\* C16: the exit status of the capture program is 0 when nothing failed and
\* non-zero when the arguments, the opening of the device, the serial
\* configuration, the opening of the output file or a read from the device
\* failed.
C16_ExitStatus ==
    Ended => (exit_status = <<0>> <=> ~SetupOrIoFailure)

\* C18: set_interface_attribs returns 0 for each of the data-bit counts 5, 6,
\* 7 and 8 with parity N, E or O when tcgetattr and tcsetattr succeed, and
\* -1 for parity M or when one of the two calls fails.
C18_SerialConfiguration ==
    attribs_ret # <<>> =>
        (attribs_ret = <<0>> <=>
            /\ args_bits \in {5, 6, 7, 8}
            /\ args_parity \in {"N", "E", "O"}
            /\ "tcgetattr" \notin env
            /\ "tcsetattr" \notin env)

\* C17: in raw mode without a strip byte the bytes written are the bytes
\* received so far, in order.
C17_RawCopiesEveryByte ==
    (format = TF_RAW /\ strip_char = NoStrip)
        => out = SubSeq(tape, 1, pos - 1)

\* index of the last 0x80 of t[1..to], 0 if there is none
LastLeadIdx(t, to) ==
    LET idx == {i \in 1..to : t[i] = 128}
    IN  IF idx = {} THEN 0 ELSE CHOOSE i \in idx : \A j \in idx : j <= i

\* while capture_bin is in CS_DATA_L the trigger byte is the byte after the
\* last 0x80 received
TriggerIdx == LastLeadIdx(tape, pos - 1) + 1

\* the accumulator is the sum of the trigger byte when it is Origin-class
\* (a trigger is never Data-class) and of the body bytes with a clear top bit
AccumulatorIsSum ==
    (format = TF_BIN /\ state = CS_DATA_L)
        => csum % 4096 = SumDataOrigin(tape, TriggerIdx, pos - 1) % 4096

\* capture_bin, in CS_DATA_L, consumes the byte tape[pos]
BodyStep == format = TF_BIN /\ state = CS_DATA_L /\ pos' = pos + 1

\* C19 as stated: in CS_DATA_L the accumulator is the sum mod 4096 of the
\* Origin-class trigger byte and of the body bytes whose top bit is clear,
\* and no byte with the top bit set, the 0x80 sentinel included, changes the
\* accumulator or the two-byte window.
C19_SentinelChangesNothing ==
    /\ []AccumulatorIsSum
    /\ [][(BodyStep /\ TopBit(tape[pos]))
            => UNCHANGED <<csum, c1, c2>>]_vars

\* C19, amended: in CS_DATA_L the accumulator is that sum; a byte with the
\* top bit set other than 0x80 changes neither the accumulator nor the
\* window; the 0x80 sentinel leaves the window alone and replaces the
\* accumulator by (accumulator - c1 - c2) mod 4096 as the engine leaves
\* CS_DATA_L.
C19_AccumulatorInvariant ==
    /\ []AccumulatorIsSum
    /\ [][(BodyStep /\ TopBit(tape[pos]))
            => IF tape[pos] = 128
               THEN /\ UNCHANGED <<c1, c2>>
                    /\ csum' = (csum - c1 - c2) % 4096
                    /\ state' = CS_TRAIL
               ELSE UNCHANGED <<csum, c1, c2, state>>]_vars

\* the engine is in CS_DATA_L after a body that holds an Origin-class byte
\* and a Field byte; the Field byte came last
C19_Witness ==
    /\ format = TF_BIN
    /\ state = CS_DATA_L
    /\ pos > TriggerIdx + 2
    /\ IsField(tape[pos - 1])
    /\ \E i \in (TriggerIdx + 1)..(pos - 2) : IsOrigin(tape[i])
    /\ csum > 0

(***************************************************************************)
(* Properties of create-bootrom and parse-bootrom.                         *)
(***************************************************************************)
\* the reading loop of create-bootrom handles the byte btape[fpos]
ReadStep == rpc = "read" /\ rpc' = "read" /\ fpos' > fpos

\* the line that step prints
LastLine == stdout'[Len(stdout')]

\* the payload the line shows for byte b: the field of a Field byte, the
\* high six bits of the word of an Origin or Data byte
PayloadShown(b) ==
    CASE LastLine.tag = "E" -> LastLine.args[1] = b % 8
      [] LastLine.tag \in {"A", "D"} -> LastLine.args[1] \div 64 = b % 64
      [] OTHER -> LastLine.args = <<>>

\* the tags of byte b when LeaderTrailer is the set of bytes lt
TagsOf(b, lt) ==
    {t \in {"D", "A", "E", "L/T"} :
        \/ t = "D" /\ IsData(b)
        \/ t = "A" /\ IsOrigin(b)
        \/ t = "E" /\ IsField(b)
        \/ t = "L/T" /\ b \in lt}

\* C11 as stated: every byte has exactly one of the tags Data (00xxxxxx),
\* Origin (01xxxxxx), Field (11xxxxxx) and LeaderTrailer (the byte 0x80
\* only), which is the case the program takes for it, with the payload
\* b & 0x3f, or b & 0x07 for Field.
C11_LeaderTrailerOnly0x80 ==
    [][ReadStep => /\ TagsOf(btape[fpos], {128}) = {LastLine.tag}
                   /\ PayloadShown(btape[fpos])]_vars

\* C11, amended: every byte has exactly one of the tags Data (00xxxxxx),
\* Origin (01xxxxxx), Field (11xxxxxx) and LeaderTrailer (10xxxxxx, 0x80 to
\* 0xBF), which is the case create-bootrom takes for it, with the payload
\* b & 0x3f, or b & 0x07 for Field.
C11_ClassificationTotal ==
    [][ReadStep => /\ TagsOf(btape[fpos], 128..191) = {LastLine.tag}
                   /\ PayloadShown(btape[fpos])]_vars

\* create-bootrom has taken a byte 10xxxxxx other than 0x80 as leader/trailer
C11_Witness ==
    /\ fpos = 2
    /\ btape[1] \in 129..191
    /\ stdout = <<Line("L/T", <<>>)>>

\* the entries a pair starting with byte b and ending with byte b1 stands for
PairWords(b, b1) ==
    LET w == (b % 64) * 64 + (b1 % 64)
    IN  IF IsOrigin(b)
        THEN <<RomData(ROM_LOADADDR, w), RomData(ROM_LOADEX, 0)>>
        ELSE <<RomData(ROM_DEPOSIT, w)>>

\* the table is tbl with the entries ws appended at index k, as far as the
\* table reaches
Appended(tbl, k, ws) ==
    \A j \in 0..(TableSize - 1) :
        bootloader'[j] = IF j - k \in 0..(Len(ws) - 1)
                         THEN ws[j - k + 1] ELSE tbl[j]

\* C20: while create-bootrom reads the tape the table is empty from index n
\* on; an Origin pair appends a LoadAddress entry with the 12-bit word
\* (high & 0x3f) << 6 | (low & 0x3f) and then a LoadExtension entry with 0, a
\* Data pair appends a Deposit entry with that word, and a leader/trailer or
\* Field byte appends nothing.
C20_TapeOrderMapping ==
    /\ [](rpc = "read" =>
            \A k \in 0..(TableSize - 1) :
                k >= rom_n => bootloader[k] = RomData(0, 0))
    /\ [][ReadStep =>
            LET b == btape[fpos]
            IN  IF b >= 128 THEN UNCHANGED <<bootloader, rom_n>>
                ELSE fpos < Len(btape) =>
                       LET ws == PairWords(b, btape[fpos + 1])
                       IN  /\ rom_n' = rom_n + Len(ws)
                           /\ Appended(bootloader, rom_n, ws)]_vars

\* the table holds the entries of an Origin pair and then of a Data pair that
\* followed a leader byte and a Field byte
C20_Witness ==
    /\ rpc = "read"
    /\ rom_n = 3
    /\ fpos > 6
    /\ \E p \in 1..(fpos - 1) : btape[p] \in 128..191
    /\ \E p \in 1..(fpos - 1) : IsField(btape[p])
    /\ bootloader[0].cmd = ROM_LOADADDR
    /\ bootloader[1] = RomData(ROM_LOADEX, 0)
    /\ bootloader[2].cmd = ROM_DEPOSIT

\* C14: a pair is its first byte (high six bits) and the byte after it (low
\* six bits), and when the tape ends after the first byte of an Origin or
\* Data pair no entry is stored in the table for it.
C14_HalfPairStoresNothing ==
    [][(ReadStep /\ btape[fpos] < 128) =>
          IF fpos < Len(btape)
          THEN Appended(bootloader, rom_n, PairWords(btape[fpos],
                                                     btape[fpos + 1]))
          ELSE UNCHANGED <<bootloader, rom_n>>]_vars

\* StripChecksum has run
StripStep == rpc = "strip" /\ rpc' = "program"

\* the entry lines 98-99 store
StartEntry == RomData(ROM_LOADADDR + ROM_START, StartAddress)

\* slot k (0..127) of the two ROM images, read as the decoder reads it
RomSlot(k) ==
    RomData(rom1[2 * k + 1],
            rom2[2 * k + 1] * 256 + rom1[2 * k + 2] * 16 + rom2[2 * k + 2])

\* slots 8..127 of the images hold entries 0..119 of the table
ImageHoldsTable ==
    \A k \in 8..(TableSize - 1) : RomSlot(k) = bootloader[k - 8]

\* C13 as stated: of a table of N entries (2 <= N <= 128) the final two are
\* given up: the entries before them are kept and the entry that follows
\* them, at index N - 2, carries Start and the address 020.
C13_TwoWordsStripped ==
    [][(StripStep /\ rom_n \in 2..TableSize) =>
          /\ \A k \in 0..(rom_n - 3) : bootloader'[k] = bootloader[k]
          /\ bootloader'[rom_n - 2].cmd % 2 = 1
          /\ bootloader'[rom_n - 2].data = StartAddress]_vars

\* C13, amended: of a table of N entries (1 <= N <= 128) only the final one
\* is given up: it is replaced by the entry LoadAddress|Start with the
\* address 020, every other entry is kept and n is N again; the images hold
\* entries 0..119 of that table in slots 8..127.
C13_OneWordStripped ==
    /\ [][(StripStep /\ rom_n \in 1..TableSize) =>
            /\ bootloader' = [bootloader EXCEPT ![rom_n - 1] = StartEntry]
            /\ rom_n' = rom_n]_vars
    /\ [](rpc = "done" => ImageHoldsTable)

\* the images are written; the Start entry follows a Deposit entry and is in
\* the images
C13_Witness ==
    /\ rpc = "done"
    /\ rom_n \in 3..(TableSize - 8)
    /\ bootloader[rom_n - 1] = StartEntry
    /\ bootloader[rom_n - 2].cmd = ROM_DEPOSIT
    /\ RomSlot(8 + rom_n - 1) = StartEntry
    /\ RomSlot(8 + rom_n - 2) = bootloader[rom_n - 2]

\* create-bootrom has ended
CreateEnded == rpc \in {"done", "crashed"}

\* C15: when create-bootrom has ended each of the two images has 256 bytes,
\* slots 0..7 are the autostart entries and slots 8..127 are entries 0..119
\* of the table, which is zero where no entry was stored.
C15_ImagesComplete ==
    CreateEnded =>
        /\ Len(rom1) = RomBytes
        /\ Len(rom2) = RomBytes
        /\ \A k \in 0..7 : RomSlot(k) = autoStart[k + 1]
        /\ ImageHoldsTable
        /\ \A k \in 0..(TableSize - 1) :
              k >= rom_n => bootloader[k] = RomData(0, 0)

\* t is an Origin pair followed by at least one and at most 118 Data pairs
WordStream(t) ==
    /\ Len(t) >= 4
    /\ Len(t) % 2 = 0
    /\ Len(t) \div 2 + 1 <= TableSize - 8
    /\ IsOrigin(t[1])
    /\ \A j \in 2..(Len(t) \div 2) : IsData(t[2 * j - 1])

\* the word of the j-th pair of t
PairWord(t, j) == (t[2 * j - 1] % 64) * 64 + (t[2 * j] % 64)

\* parse-bootrom has printed all 128 slots of images written for a word
\* stream
WordStreamParsed == rpc = "done" /\ rom_i = RomBytes /\ WordStream(btape)

\* the lines of the report that show a deposit
Deposits == SelectSeq(report, LAMBDA ln : ln.loc # <<>>)

\* C12 as stated: for a tape Origin(a), Data(v1), ..., Data(vn) the decoder
\* reports deposits for exactly the addresses a, ..., a+n-1, in field 0,
\* carrying v1, ..., vn.
C12_AllWordsDeposited ==
    WordStreamParsed =>
        Deposits = [j \in 1..(Len(btape) \div 2 - 1) |->
                       Slot(ROM_DEPOSIT,
                            <<0, PairWord(btape, 1) + j - 1>>,
                            PairWord(btape, j + 1))]

\* C12, amended: for a tape Origin(a), Data(v1), ..., Data(vn), Data(c) with
\* 0 <= n <= 117, c being the checksum pair, the decoder reports the eight
\* autostart slots, LoadAddress a, LoadExtension 0, deposits for exactly the
\* addresses a, ..., a+n-1 in field 0 carrying v1, ..., vn, then the entry
\* LoadAddress|Start 020 in place of the last pair, then empty slots.
C12_RoundTrip ==
    WordStreamParsed =>
        LET kept == Len(btape) \div 2 - 2
        IN  report = [j \in 1..TableSize |->
                CASE j <= 8 ->
                        Slot(autoStart[j].cmd, <<>>, autoStart[j].data)
                  [] j = 9 -> Slot(ROM_LOADADDR, <<>>, PairWord(btape, 1))
                  [] j = 10 -> Slot(ROM_LOADEX, <<>>, 0)
                  [] j \in 11..(10 + kept) ->
                        Slot(ROM_DEPOSIT,
                             <<0, PairWord(btape, 1) + j - 11>>,
                             PairWord(btape, j - 9))
                  [] j = 11 + kept -> Slot(StartEntry.cmd, <<>>, StartAddress)
                  [] OTHER -> Slot(0, <<>>, 0)]

\* the images of the tape 0200: 1234, 5670 with its checksum pair have been
\* decoded
C12_Witness ==
    /\ rpc = "done"
    /\ rom_i = RomBytes
    /\ btape = <<66, 0, 10, 28, 46, 56, 3, 14>>
    /\ Deposits = <<Slot(ROM_DEPOSIT, <<0, 128>>, 668),
                    Slot(ROM_DEPOSIT, <<0, 129>>, 3000)>>

\* C29: every store of create-bootrom to its table is at an index the table
\* has: bootloader[n] (and bootloader[n + 1] for an Origin pair) when the
\* reading loop is about to handle a Data or Origin byte, and bootloader[n - 1]
\* when the Start entry is about to be stored.
C29_IndexInTable ==
    /\ (rpc = "read" /\ fpos <= Len(btape) /\ btape[fpos] < 128) =>
          /\ InTable(rom_n)
          /\ IsOrigin(btape[fpos]) => InTable(rom_n + 1)
    /\ rpc = "strip" => InTable(rom_n - 1)

\* create-bootrom has written the autostart entries
PreambleWritten == rpc \in {"strip", "program", "done"}

\* 0000, 0200, 2000, 4200
PreambleAddresses == <<0, 128, 1024, 2176>>

\* the first eight slots of the images are four pairs: LoadAddress with the
\* address, then an entry with command ext and data 0
PreambleIs(ext) ==
    /\ Len(rom1) >= 16
    /\ Len(rom2) >= 16
    /\ \A k \in 0..3 :
          /\ RomSlot(2 * k) = RomData(ROM_LOADADDR, PreambleAddresses[k + 1])
          /\ RomSlot(2 * k + 1) = RomData(ext, 0)

\* C24 as stated: whatever the tape, the preamble is four pairs at 0000,
\* 0200, 2000 and 4200, each a LoadAddress entry with the address followed by
\* an entry whose command is LoadExtension alone, with data 0.
C24_ExtensionAlone == PreambleWritten => PreambleIs(ROM_LOADEX)

\* C24, amended: whatever the tape, the preamble create-bootrom writes is
\* four pairs at 0000, 0200, 2000 and 4200, each a LoadAddress entry with the
\* address followed by an entry whose command is LoadExtension together with
\* Start, with data 0.
C24_ExtensionAndStart == PreambleWritten => PreambleIs(ROM_LOADEX + ROM_START)

\* the images of a tape with a program are complete; slots 6 and 7 are the
\* pair for 4200
C24_Witness ==
    /\ rpc = "done"
    /\ rom_n > 2
    /\ RomSlot(6) = RomData(ROM_LOADADDR, 2176)
    /\ RomSlot(7) = RomData(5, 0)

\* C21: for every command 0..15 and every value 0..4095, write_entry puts
\* the command in ROM1 and bits 8..11 of the value in ROM2 at the even
\* offset, bits 4..7 in ROM1 and bits 0..3 in ROM2 at the odd offset, and
\* command = ROM1[i], value = (ROM2[i] << 8) | (ROM1[i+1] << 4) | ROM2[i+1]
\* give the command and the value back, in that formula and in the lines
\* parse-bootrom prints.
C21_NibbleRoundTrip ==
    /\ rpc = "done" =>
          \A k \in 0..(TableSize - 9) :
              LET i == 2 * (k + 8) + 1
                  e == bootloader[k]
              IN  /\ rom1[i] = e.cmd
                  /\ rom2[i] = (e.data \div 256) % 16
                  /\ rom1[i + 1] = (e.data \div 16) % 16
                  /\ rom2[i + 1] = e.data % 16
                  /\ RomSlot(k + 8) = e
    /\ \A j \in 9..Len(report) :
          /\ report[j].opr = bootloader[j - 9].cmd
          /\ report[j].data = bootloader[j - 9].data

\* the RomWord with command 15 and value 7777 has been written and decoded
C21_Witness ==
    /\ rpc = "done"
    /\ rom_i = RomBytes
    /\ \E k \in 0..(TableSize - 9) :
          /\ bootloader[k] = RomData(15, 4095)
          /\ report[k + 9].opr = 15
          /\ report[k + 9].data = 4095

\* parse-bootrom decodes the slot at offset rom_i
DecodeStep == rpc = "done" /\ rom_i' # rom_i

\* command c has the bit b (8 LoadAddress, 4 LoadExtension, 2 Deposit)
Has(c, b) == (c \div b) % 2 = 1

\* C22: the decoder takes the slots in ascending order, one line per slot; a
\* slot with LoadAddress sets the address register to its value, a slot with
\* LoadExtension sets the field register to its value masked to 3 bits, a
\* slot with Deposit reports the field and address registers as they are
\* after that and its value, and then adds one to the address register; a
\* slot without LoadAddress and without Deposit leaves the address register
\* unchanged.
C22_DecoderRegisters ==
    /\ [](Len(report) * 2 = rom_i)
    /\ [][DecodeStep =>
            LET e == RomSlot(rom_i \div 2)
                a == IF Has(e.cmd, 8) THEN e.data ELSE addr
                x == IF Has(e.cmd, 4) THEN e.data % 8 ELSE ext_addr
                ln == report'[Len(report')]
            IN  /\ rom_i' = rom_i + 2
                /\ report' = Append(report, ln)
                /\ ln.opr = e.cmd
                /\ ln.data = e.data
                /\ ext_addr' = x
                /\ IF Has(e.cmd, 2)
                   THEN ln.loc = <<x, a>> /\ addr' = a + 1
                   ELSE ln.loc = <<>> /\ addr' = a]_vars

\* a slot with Deposit alone has been reported at the address after the one
\* of the previous Deposit, in a field other than 0
C22_Witness ==
    /\ rpc = "done"
    /\ rom_i > 20
    /\ LET ln == report[Len(report)]
       IN  /\ ln.opr = ROM_DEPOSIT
           /\ ln.loc[1] # 0
           /\ addr = ln.loc[2] + 1
           /\ \E j \in 1..(Len(report) - 1) :
                 /\ report[j].loc # <<>>
                 /\ report[j].loc[2] + 1 = ln.loc[2]
                 /\ \A k \in (j + 1)..(Len(report) - 1) : report[k].loc = <<>>

\* the engine, in CS_LEAD_IN, consumes the byte tape[pos]
LeadInStep == RimOrBin /\ state = CS_LEAD_IN /\ pos' = pos + 1

\* byte c starts a record in the current mode when the counter is above 7
StartsRecord(c) ==
    leadinCount > 7 /\ (IsOrigin(c) \/ (format = TF_BIN /\ IsField(c)))

\* C23: in CS_LEAD_IN with a counter above 7 a Field byte starts a record in
\* BIN mode (the counted 0x80 bytes and the Field byte are written, the
\* checksum is left as it is) and not in RIM mode; in both modes a byte other
\* than 0x80 that does not start a record is not written, sets the counter
\* to 0 and leaves the engine in CS_LEAD_IN.
C23_FieldStartsBinOnly ==
    [][LeadInStep =>
          LET c == tape[pos]
          IN  /\ (leadinCount > 7 /\ IsField(c) /\ format = TF_BIN) =>
                    /\ state' = CS_DATA_L
                    /\ out' = out \o Lead(leadinCount) \o <<c>>
                    /\ csum' = csum
              /\ (leadinCount > 7 /\ IsField(c) /\ format = TF_RIM) =>
                    ~StartsRecord(c)
              /\ (c # 128 /\ ~StartsRecord(c)) =>
                    /\ state' = CS_LEAD_IN
                    /\ out' = out
                    /\ leadinCount' = 0]_vars

\* in BIN mode a Field byte has started the record
C23_Witness ==
    /\ format = TF_BIN
    /\ state = CS_DATA_L
    /\ pos > MinLead + 1
    /\ IsField(tape[pos - 1])
    /\ out = Lead(pos - 2) \o <<tape[pos - 1]>>
    /\ csum = 0

\* the stage of an engine state: Idle 0, LeadIn 1, InRecord 2 (CS_DATA_H in
\* RIM mode, CS_DATA_L in BIN mode), Trailing 3, Done 4
Stage(s) ==
    CASE s = CS_START -> 0
      [] s = CS_LEAD_IN -> 1
      [] s \in {CS_DATA_H, CS_DATA_L} -> 2
      [] s = CS_TRAIL -> 3
      [] s = CS_DONE -> 4

\* from s to s2 the engine stays or advances by one stage
Forward(s, s2) == s2 \in CS_START..CS_DONE /\ Stage(s2) - Stage(s) \in {0, 1}

\* an engine in state s whose leader counter is k
EngineAt(s, k) ==
    [state |-> s, leadinCount |-> k, csum |-> 0, c1 |-> 0, c2 |-> 0,
     out |-> <<>>, printed |-> <<>>]

\* the engine of the selected mode, in each of the six states, with the
\* counter below and above the threshold, has a forward transition for each
\* byte value
EveryPairForward ==
    \A s \in CS_START..CS_DONE : \A c \in 0..255 : \A k \in {0, MinLead} :
        Forward(s, Capture(EngineAt(s, k), c).state)

\* the program has not started to read and will receive nothing: one state
\* for each mode and strip byte
BeforeCapture == pc = "setup" /\ tape = <<>>

\* C26: in every mode each byte leaves the engine state where it is or
\* advances it by one stage in the order Idle, LeadIn, InRecord, Trailing,
\* Done, and every pair of a state and a byte value has such a transition.
C26_ForwardOnly ==
    /\ [](BeforeCapture => EveryPairForward)
    /\ [][pos' = pos + 1 => Forward(state, state')]_vars

\* a RIM capture has gone through every stage and ended in CS_DONE
C26_Witness ==
    /\ format = TF_RIM
    /\ pc = "closed"
    /\ state = CS_DONE
    /\ ~time_out

\* C28: in BIN mode the number of checksum verdicts reported is one when the
\* engine is in CS_TRAIL or CS_DONE and zero in every other state; the verdict
\* is added by the step that consumes the first 0x80 in CS_DATA_L, and no
\* step removes or changes a reported verdict.
C28_OneVerdict ==
    /\ [](format = TF_BIN =>
            Len(printed) = IF state \in {CS_TRAIL, CS_DONE} THEN 1 ELSE 0)
    /\ [][format = TF_BIN =>
            \/ printed' = printed
            \/ /\ printed = <<>>
               /\ Len(printed') = 1
               /\ BodyStep
               /\ tape[pos] = 128]_vars

\* a BIN capture was cut off by a timeout inside the record: no verdict
C28_Witness ==
    /\ format = TF_BIN
    /\ pc = "closed"
    /\ time_out
    /\ state = CS_DATA_L
    /\ Len(out) > MinLead + 1
    /\ printed = <<>>

\* the length of the run of 0x80 bytes that ends just before index g of t
RunBefore(t, g) ==
    LET other == {j \in 1..(g - 1) : t[j] # 128}
    IN  IF other = {} THEN g - 1
        ELSE g - 1 - (CHOOSE j \in other : \A m \in other : m <= j)

\* byte b is of a class that can start a record in the current mode
TriggerClass(b) == IsOrigin(b) \/ (format = TF_BIN /\ IsField(b))

\* the indexes among the bytes received at which a byte of a trigger class
\* follows a run of at least 8 bytes 0x80
Triggers ==
    {g \in 1..(pos - 1) :
        TriggerClass(tape[g]) /\ RunBefore(tape, g) >= MinLead}

\* C27: in RIM and BIN mode the output is empty while the engine is in
\* CS_START or CS_LEAD_IN; when it is not empty a trigger byte has been
\* received after a run of n >= 8 bytes 0x80, and the output starts with
\* exactly that run and the trigger byte: no byte received before the run
\* is in the output.
C27_OutputStartsAtLeadIn ==
    RimOrBin =>
        /\ state \in {CS_START, CS_LEAD_IN} => out = <<>>
        /\ out # <<>> =>
              /\ Triggers # {}
              /\ LET g == Least(Triggers)
                     n == RunBefore(tape, g)
                 IN  /\ n >= MinLead
                     /\ Len(out) >= n + 1
                     /\ SubSeq(out, 1, n + 1) = Lead(n) \o <<tape[g]>>
                     /\ out[n + 1] # 128
        /\ state \notin {CS_START, CS_LEAD_IN} => out # <<>>

\* a record has started after a first run of 0x80 bytes was broken by a
\* byte that was discarded
C27_Witness ==
    /\ RimOrBin
    /\ out # <<>>
    /\ Triggers # {}
    /\ LET g == Least(Triggers)
       IN  /\ g > RunBefore(tape, g) + 2
           /\ tape[1] = 128
           /\ Len(out) = RunBefore(tape, g) + 1

\* what a capture leaves behind: the output file, the lines on stdout, the
\* message on stderr and the exit status
Outcome(o, p, err, status) == <<o, p, err, status>>

\* the loop ended on a read of zero bytes with the record unfinished
EndedByTimeout ==
    /\ RimOrBin
    /\ pc = "closed"
    /\ time_out
    /\ state \notin {CS_START, CS_DONE}

\* the capture that received the byte c after the bytes delivered so far
OneMore(c) == Capture(Eng, c)

\* C25: what a capture that a timeout ended before CS_DONE leaves behind
\* differs from what a capture leaves behind that received one more byte and
\* ended in CS_DONE.
C25_TimeoutDistinguishable ==
    EndedByTimeout =>
        \A c \in 0..255 :
            OneMore(c).state = CS_DONE =>
                Outcome(OneMore(c).out, OneMore(c).printed, FALSE, <<0>>)
                    # Outcome(out, printed, stderr, exit_status)

====
